---------------------------- MODULE Spec2Model ----------------------------
(***************************************************************************)
(* A model of reportable's `extract` command (src/reportable/main.py).     *)
(*                                                                         *)
(* Text is a sequence of one-character strings, so that the regular        *)
(* expression of the Quarto extractor, pathlib's parsing and printing of   *)
(* paths and str.replace are computed character by character.  A path of   *)
(* the file system is the sequence of its components from the working      *)
(* directory, which is taken to be the root.                               *)
(***************************************************************************)
EXTENDS Naturals, Sequences, FiniteSets

VARIABLES
    files,              \* regular files on disk: absolute path -> content
    dirs,               \* directories on disk: set of absolute paths
    pc,                 \* position of the running command
    runs,               \* number of invocations started so far
    report_file,        \* argument of the current invocation (path parts)
    output_dir,         \* argument of the current invocation (path parts)
    content,            \* process_quarto_file: text read from the report
    media_paths,        \* process_quarto_file: candidates of the extractor
    valid_media_paths,  \* process_quarto_file: resolved valid paths
    old_valid_media_paths, \* process_quarto_file: the same, as Path(path)
    idx,                \* copy_media_files: index of the next path to copy
    new_relative_paths, \* process_quarto_file: the new path of each valid path
    new_content,        \* process_quarto_file: rewritten text
    log,                \* console output of the current invocation
    stages,             \* stages the current invocation has completed
    rendered,           \* shell commands run: the paths handed to quarto
    exit_code,          \* exit status of the last finished invocation
    error               \* exception that ended the current invocation

vars == <<files, dirs, pc, runs, report_file, output_dir, content,
          media_paths, valid_media_paths, old_valid_media_paths, idx,
          new_relative_paths, new_content, log, stages, rendered, exit_code, error>>

---------------------------------------------------------------------------
(* Bounds of the model *)

\* lines of a generated report
MaxRefs == 2
\* invocations of the command in one behaviour
MaxRuns == 2

---------------------------------------------------------------------------
(* Characters and strings *)

NL == "\n"
SP == " "
DQ == "\""
SQ == "'"

IsSpace(c) == c \in {SP, NL}
IsQuote(c) == c \in {DQ, SQ}

\* [^"',\s]
IsValueChar(c) == ~IsQuote(c) /\ c # "," /\ ~IsSpace(c)

UpperToLower ==
    [A |-> "a", B |-> "b", C |-> "c", D |-> "d", E |-> "e", F |-> "f",
     G |-> "g", H |-> "h", I |-> "i", J |-> "j", K |-> "k", L |-> "l",
     M |-> "m", N |-> "n", O |-> "o", P |-> "p", Q |-> "q", R |-> "r",
     S |-> "s", T |-> "t", U |-> "u", V |-> "v", W |-> "w", X |-> "x",
     Y |-> "y", Z |-> "z"]

\* str.lower()
Lower(s) ==
    [i \in 1..Len(s) |->
        IF s[i] \in DOMAIN UpperToLower THEN UpperToLower[s[i]] ELSE s[i]]

\* s[i:j] of Python with 1-based i and exclusive j
Slice(s, i, j) == SubSeq(s, i, j - 1)

\* s.startswith(t, i) with 1-based i
MatchesAt(s, t, i) ==
    /\ i + Len(t) - 1 <= Len(s)
    /\ \A k \in 1..Len(t) : s[i + k - 1] = t[k]

---------------------------------------------------------------------------
(* QUARTO_PATTERN and find_quarto_media *)

RECURSIVE SkipSpaces(_, _)
\* \s* : the first index at or after i that holds no white space
SkipSpaces(s, i) ==
    IF i <= Len(s) /\ IsSpace(s[i]) THEN SkipSpaces(s, i + 1) ELSE i

RECURSIVE SkipValue(_, _)
\* [^"',\s]+ : the first index at or after i that holds no value character
SkipValue(s, i) ==
    IF i <= Len(s) /\ IsValueChar(s[i]) THEN SkipValue(s, i + 1) ELSE i

NoMatch == [ok |-> FALSE, group |-> <<>>, end |-> 0]

\* ["']?([^"',\s]+)["']? from index i
MatchQuotedValue(s, i) ==
    LET a == IF i <= Len(s) /\ IsQuote(s[i]) THEN i + 1 ELSE i
        b == SkipValue(s, a)
        e == IF b <= Len(s) /\ IsQuote(s[b]) THEN b + 1 ELSE b
    IN  IF b > a
        THEN [ok |-> TRUE, group |-> Slice(s, a, b), end |-> e]
        ELSE NoMatch

\* (?::\s*["']?([^"',\s]+)["']?) and the same after an equal sign
MatchAfterSign(s, i, sign) ==
    IF i <= Len(s) /\ s[i] = sign
    THEN MatchQuotedValue(s, SkipSpaces(s, i + 1))
    ELSE NoMatch

RECURSIVE FindOnLine(_, _, _)
\* the first index at or after i where t starts, before any line break; 0 if none
FindOnLine(s, t, i) ==
    IF i > Len(s) THEN 0
    ELSE IF MatchesAt(s, t, i) THEN i
    ELSE IF s[i] = NL THEN 0
    ELSE FindOnLine(s, t, i + 1)

\* !\[.*?\]\((.*?)\)
MatchImage(s, i) ==
    IF ~MatchesAt(s, <<"!", "[">>, i) THEN NoMatch
    ELSE LET j == FindOnLine(s, <<"]", "(">>, i + 2)
             k == IF j = 0 THEN 0 ELSE FindOnLine(s, <<")">>, j + 2)
         IN  IF k = 0 THEN NoMatch
             ELSE [ok |-> TRUE, group |-> Slice(s, j + 2, k), end |-> k + 1]

\* (?<=:\s)["']?([^"',\s]+)["']?
MatchAfterColonSpace(s, i) ==
    IF i > 2 /\ s[i - 2] = ":" /\ IsSpace(s[i - 1])
    THEN MatchQuotedValue(s, i)
    ELSE NoMatch

\* the alternatives of QUARTO_PATTERN, tried in order at index i
MatchQuarto(s, i) ==
    LET m1 == MatchAfterSign(s, i, ":")
        m2 == MatchAfterSign(s, i, "=")
        m3 == MatchImage(s, i)
        m4 == MatchAfterColonSpace(s, i)
    IN  IF m1.ok THEN m1
        ELSE IF m2.ok THEN m2
        ELSE IF m3.ok THEN m3
        ELSE m4

RECURSIVE FindAllFrom(_, _)
\* QUARTO_PATTERN.findall from index i, empty groups dropped
FindAllFrom(s, i) ==
    IF i > Len(s) THEN <<>>
    ELSE LET m == MatchQuarto(s, i)
         IN  IF ~m.ok THEN FindAllFrom(s, i + 1)
             ELSE (IF m.group = <<>> THEN <<>> ELSE <<m.group>>)
                  \o FindAllFrom(s, m.end)

find_quarto_media(text) == FindAllFrom(text, 1)

---------------------------------------------------------------------------
(* pathlib *)

RECURSIVE SplitFrom(_, _, _)
\* s.split("/") from index i, cur being the component read so far
SplitFrom(s, i, cur) ==
    IF i > Len(s) THEN <<cur>>
    ELSE IF s[i] = "/" THEN <<cur>> \o SplitFrom(s, i + 1, <<>>)
    ELSE SplitFrom(s, i + 1, Append(cur, s[i]))

RECURSIVE DropEmptyAndDot(_)
DropEmptyAndDot(parts) ==
    IF parts = <<>> THEN <<>>
    ELSE LET rest == DropEmptyAndDot(Tail(parts))
         IN  IF Head(parts) = <<>> \/ Head(parts) = <<".">>
             THEN rest ELSE <<Head(parts)>> \o rest

\* Path(s): the parts of s, "." and empty components dropped
PathOf(s) ==
    [abs |-> Len(s) > 0 /\ s[1] = "/",
     parts |-> DropEmptyAndDot(SplitFrom(s, 1, <<>>))]

RECURSIVE JoinParts(_)
JoinParts(parts) ==
    IF parts = <<>> THEN <<>>
    ELSE IF Len(parts) = 1 THEN parts[1]
    ELSE parts[1] \o <<"/">> \o JoinParts(Tail(parts))

\* str(path)
StrOf(p) ==
    IF p.abs THEN <<"/">> \o JoinParts(p.parts)
    ELSE IF p.parts = <<>> THEN <<".">>
    ELSE JoinParts(p.parts)

\* path.name of a sequence of parts
NameOf(parts) == IF parts = <<>> THEN <<>> ELSE parts[Len(parts)]

\* path.parent of a sequence of parts
ParentOf(parts) ==
    IF parts = <<>> THEN <<>> ELSE SubSeq(parts, 1, Len(parts) - 1)

RECURSIVE LastDot(_, _)
\* name.rfind("."), 1-based, 0 if there is none
LastDot(name, i) ==
    IF i = 0 THEN 0
    ELSE IF name[i] = "." THEN i
    ELSE LastDot(name, i - 1)

\* path.suffix of a sequence of parts
SuffixOf(parts) ==
    LET name == NameOf(parts)
        i == LastDot(name, Len(name))
    IN  IF 1 < i /\ i < Len(name) THEN Slice(name, i, Len(name) + 1) ELSE <<>>

RECURSIVE ResolveFrom(_, _)
\* path.resolve(): ".." removes the component before it (none at the root)
ResolveFrom(done, parts) ==
    IF parts = <<>> THEN done
    ELSE IF Head(parts) = <<".", ".">>
         THEN ResolveFrom(ParentOf(done), Tail(parts))
         ELSE ResolveFrom(Append(done, Head(parts)), Tail(parts))

\* lines 57-62 and 80-85: the absolute path a media path stands for
full_path_of(media_path, report) ==
    IF ~media_path.abs
    THEN ResolveFrom(<<>>, ParentOf(report) \o media_path.parts)
    ELSE ResolveFrom(<<>>, media_path.parts)

---------------------------------------------------------------------------
(* Validation, new paths and rewriting *)

SUPPORTED_EXTENSIONS ==
    << <<".", "p", "n", "g">>, <<".", "j", "p", "g">>,
       <<".", "j", "p", "e", "g">>, <<".", "g", "i", "f">>,
       <<".", "s", "v", "g">>, <<".", "m", "p", "4">>,
       <<".", "m", "p", "3">>, <<".", "w", "a", "v">> >>

InList(x, list) == \E i \in 1..Len(list) : list[i] = x

\* Path.exists(): true of a regular file and of a directory
Exists(fs, ds, p) == p \in DOMAIN fs \/ p \in ds

\* the test of lines 65 and 88
IsValidMedia(fs, ds, full_path) ==
    /\ InList(Lower(SuffixOf(full_path)), SUPPORTED_EXTENSIONS)
    /\ Exists(fs, ds, full_path)

RECURSIVE check_path_validity_stops(_, _, _, _)
\* check_path_validity leaving its loop at the first invalid path
check_path_validity_stops(paths, report, fs, ds) ==
    IF paths = <<>> THEN [valid |-> <<>>, old |-> <<>>]
    ELSE LET media_path == PathOf(Head(paths))
             full_path == full_path_of(media_path, report)
             rest == check_path_validity_stops(Tail(paths), report, fs, ds)
         IN  IF IsValidMedia(fs, ds, full_path)
             THEN [valid |-> <<full_path>> \o rest.valid,
                   old |-> <<media_path>> \o rest.old]
             ELSE [valid |-> <<>>, old |-> <<>>]

RECURSIVE check_path_validity(_, _, _, _)
\* the pair (valid_paths, valid_old_paths)
check_path_validity(paths, report, fs, ds) ==
    IF paths = <<>> THEN [valid |-> <<>>, old |-> <<>>]
    ELSE LET media_path == PathOf(Head(paths))
             full_path == full_path_of(media_path, report)
             rest == check_path_validity(Tail(paths), report, fs, ds)
         IN  IF IsValidMedia(fs, ds, full_path)
             THEN [valid |-> <<full_path>> \o rest.valid,
                   old |-> <<media_path>> \o rest.old]
             ELSE rest

\* one new path: Path(dest_dir.name) / media_path.name
NewPathOf(media_path, dest_dir) ==
    [abs |-> FALSE, parts |-> <<NameOf(dest_dir), NameOf(media_path)>>]

make_relative_paths(paths, dest_dir) ==
    [i \in 1..Len(paths) |-> NewPathOf(paths[i], dest_dir)]

RECURSIVE StrReplaceFrom(_, _, _, _)
\* str.replace(old, new) from index i: leftmost, non-overlapping occurrences
StrReplaceFrom(s, old, new, i) ==
    IF i > Len(s) THEN <<>>
    ELSE IF MatchesAt(s, old, i)
         THEN new \o StrReplaceFrom(s, old, new, i + Len(old))
         ELSE <<s[i]>> \o StrReplaceFrom(s, old, new, i + 1)

StrReplace(s, old, new) == StrReplaceFrom(s, old, new, 1)

RECURSIVE replace_media_paths(_, _, _)
\* zip(old_paths, new_paths), each pair replaced in the text rewritten so far
replace_media_paths(text, old_paths, new_paths) ==
    IF old_paths = <<>> \/ new_paths = <<>> THEN text
    ELSE replace_media_paths(
            StrReplace(text, StrOf(Head(old_paths)), StrOf(Head(new_paths))),
            Tail(old_paths), Tail(new_paths))

---------------------------------------------------------------------------
(* LATEX_MEDIA_PATTERN, MD_MEDIA_PATTERN and their extractors *)

LATEX_PREFIX ==
    <<"\\", "i", "n", "c", "l", "u", "d", "e", "g", "r", "a", "p", "h", "i",
      "c", "s", "{">>

RECURSIVE FindChar(_, _, _)
\* s.find(c, i), 1-based, 0 if there is none
FindChar(s, c, i) ==
    IF i > Len(s) THEN 0
    ELSE IF s[i] = c THEN i
    ELSE FindChar(s, c, i + 1)

\* \\includegraphics\{([^}]+)\}
MatchLatex(s, i) ==
    IF ~MatchesAt(s, LATEX_PREFIX, i) THEN NoMatch
    ELSE LET a == i + Len(LATEX_PREFIX)
             k == FindChar(s, "}", a)
         IN  IF k > a
             THEN [ok |-> TRUE, group |-> Slice(s, a, k), end |-> k + 1]
             ELSE NoMatch

RECURSIVE FindLatexFrom(_, _)
FindLatexFrom(s, i) ==
    IF i > Len(s) THEN <<>>
    ELSE LET m == MatchLatex(s, i)
         IN  IF m.ok THEN <<m.group>> \o FindLatexFrom(s, m.end)
             ELSE FindLatexFrom(s, i + 1)

find_latex_media(text) == FindLatexFrom(text, 1)

RECURSIVE FindMarkdownFrom(_, _)
FindMarkdownFrom(s, i) ==
    IF i > Len(s) THEN <<>>
    ELSE LET m == MatchImage(s, i)
         IN  IF m.ok THEN <<m.group>> \o FindMarkdownFrom(s, m.end)
             ELSE FindMarkdownFrom(s, i + 1)

find_markdown_media(text) == FindMarkdownFrom(text, 1)

---------------------------------------------------------------------------
(* The file system the command is run on, and the reports it is run on *)

N_doc == <<"d", "o", "c">>
N_out == <<"o", "u", "t">>
N_assets == <<"a", "s", "s", "e", "t", "s">>
N_extensions == <<"_", "e", "x", "t", "e", "n", "s", "i", "o", "n", "s">>
N_qmd == <<"r", ".", "q", "m", "d">>
N_tex == <<"r", ".", "t", "e", "x">>
N_md == <<"r", ".", "m", "d">>
N_docx == <<"r", ".", "d", "o", "c", "x">>

EXT_tex == <<".", "t", "e", "x">>
EXT_md == <<".", "m", "d">>
EXT_qmd == <<".", "q", "m", "d">>

\* media references as they are written in a report
R_dot_img_a == <<".", "/", "i", "m", "g", "/", "a", ".", "p", "n", "g">>
R_a_img == <<"a", "/", "i", "m", "g", ".", "p", "n", "g">>
R_b_img == <<"b", "/", "i", "m", "g", ".", "p", "n", "g">>
R_diagram == <<"d", "i", "a", "g", "r", "a", "m", ".", "p", "n", "g">>
R_notes == <<"n", "o", "t", "e", "s", ".", "t", "x", "t">>
R_missing == <<"m", "i", "s", "s", "i", "n", "g", ".", "s", "v", "g">>
R_dir == <<"d", "i", "r", ".", "p", "n", "g">>
R_upper == <<"X", ".", "P", "N", "G">>

\* the absolute path of a reference written in a report of directory doc
InDoc(ref) == <<N_doc>> \o PathOf(ref).parts

\* the bytes of the media file a reference names
BytesOf(ref) == <<"#">> \o ref

ExistingMedia == {R_dot_img_a, R_a_img, R_b_img, R_diagram, R_notes, R_upper}

ImageLine(ref) == <<"!", "[", "]", "(">> \o ref \o <<")", NL>>
YamlLine(ref) == <<"i", "m", "a", "g", "e", ":", SP, DQ>> \o ref \o <<DQ, NL>>
AttrLine(ref) == <<"s", "r", "c", "=">> \o ref \o <<NL>>

\* the lines a generated report is made of
Lines ==
    {ImageLine(r) : r \in {R_dot_img_a, R_a_img, R_b_img, R_diagram,
                           R_missing, R_dir}}
    \cup {YamlLine(R_upper), AttrLine(R_notes)}

RECURSIVE DocsOfLen(_)
DocsOfLen(n) ==
    IF n = 0 THEN {<<>>}
    ELSE {l \o d : l \in Lines, d \in DocsOfLen(n - 1)}

\* the Quarto reports of the model: up to MaxRefs lines
Docs == UNION {DocsOfLen(n) : n \in 0..MaxRefs}

TexDoc == LATEX_PREFIX \o R_diagram \o <<"}", NL>>
MdDoc == <<"!", "[", "f", "i", "g", "]", "(">> \o R_diagram \o <<")", NL>>

QmdReport == <<N_doc, N_qmd>>
TexReport == <<N_doc, N_tex>>
MdReport == <<N_doc, N_md>>
DocxReport == <<N_doc, N_docx>>

ReportFiles == {QmdReport, TexReport, MdReport, DocxReport}
OutputDirs == {<<N_out>>, <<N_doc>>}

Put(f, k, v) == [x \in DOMAIN f \cup {k} |-> IF x = k THEN v ELSE f[x]]

InitialFiles(doc) ==
    [p \in {InDoc(r) : r \in ExistingMedia}
            \cup {QmdReport, TexReport, MdReport, DocxReport} |->
        IF p = QmdReport THEN doc
        ELSE IF p = TexReport THEN TexDoc
        ELSE IF p = MdReport THEN MdDoc
        ELSE IF p = DocxReport THEN <<>>
        ELSE BytesOf(CHOOSE r \in ExistingMedia : InDoc(r) = p)]

InitialDirs ==
    {<<>>, <<N_doc>>, <<N_doc, <<"i", "m", "g">> >>, <<N_doc, <<"a">> >>,
     <<N_doc, <<"b">> >>, InDoc(R_dir)}

---------------------------------------------------------------------------
(* The command *)

Msg(kind, path) == [kind |-> kind, path |-> path]

\* Dispatch without its last branch: an unknown suffix falls into the one before
Dispatch_NoElse(suffix) ==
    IF suffix = EXT_tex THEN "latex"
    ELSE IF suffix = EXT_md THEN "markdown"
    ELSE IF suffix = EXT_qmd THEN "quarto"
    ELSE "markdown"

\* lines 183-198: the branch of extract a suffix selects
Dispatch(suffix) ==
    IF suffix = EXT_tex THEN "latex"
    ELSE IF suffix = EXT_md THEN "markdown"
    ELSE IF suffix = EXT_qmd THEN "quarto"
    ELSE "unsupported"

RECURSIVE CopyValid(_, _, _, _, _)
\* the files after copying each valid path of a list into dest_dir
CopyValid(fs, ds, paths, report, dest_dir) ==
    IF paths = <<>> THEN fs
    ELSE LET full_path == full_path_of(PathOf(Head(paths)), report)
             dest_path == dest_dir \o <<NameOf(full_path)>>
         IN  CopyValid(
                IF IsValidMedia(fs, ds, full_path) /\ full_path \in DOMAIN fs
                THEN [x \in DOMAIN fs \cup {dest_path} |->
                        IF x = dest_path THEN fs[full_path] ELSE fs[x]]
                ELSE fs,
                ds, Tail(paths), report, dest_dir)

\* process_latex_file with lines 119-122 in force: it extracts and copies
process_latex_file_copying(fs, ds, file_path, dest_dir) ==
    CopyValid(fs, ds, find_latex_media(fs[file_path]), file_path, dest_dir)

\* the files on disk after process_latex_file: it prints and returns
process_latex_file(fs, ds, file_path, dest_dir) == fs

\* the files on disk after process_markdown_file: it prints and returns
process_markdown_file(fs, ds, file_path, dest_dir) == fs

\* Path.mkdir(parents=True, exist_ok=True)
MkdirParents(ds, p) == ds \cup {SubSeq(p, 1, n) : n \in 0..Len(p)}

\* line 180
assets_dir_of(out) == out \o <<N_assets>>

\* line 89: dest_dir / media_path.name
dest_path_of(dest_dir, media_path) == dest_dir \o <<NameOf(media_path)>>

\* new_file_path_of taking the parent of output_dir
new_file_path_beside_output_dir(dest_dir, file_path) ==
    ParentOf(ParentOf(dest_dir)) \o <<NameOf(file_path)>>

\* line 152: Path(dest_dir.parent) / file_path.name
new_file_path_of(dest_dir, file_path) ==
    ParentOf(dest_dir) \o <<NameOf(file_path)>>

\* lines 158 and 160
extensions_dir_of(file_path) == ParentOf(file_path) \o <<N_extensions>>
dest_extensions_dir_of(dest_dir) == ParentOf(dest_dir) \o <<N_extensions>>

\* shutil.copy: the exception it raises, "" if none
CopyError(fs, ds, src, dst) ==
    IF src \in ds THEN "IsADirectoryError"
    ELSE IF src = dst THEN "SameFileError"
    ELSE ""

\* CopyFile that keeps a destination that exists
CopyFile_KeepExisting(fs, src, dst) ==
    IF dst \in DOMAIN fs THEN fs ELSE Put(fs, dst, fs[src])

\* shutil.copy: the files after a copy that raises nothing
CopyFile(fs, src, dst) == Put(fs, dst, fs[src])

\* copytree with dirs_exist_ok=True
CopytreeFails_Never(fs, ds, dst) == FALSE

\* shutil.copytree raises FileExistsError when the destination exists
CopytreeFails(fs, ds, dst) == Exists(fs, ds, dst)

Idle == pc \in {"idle", "done", "failed"}

Init ==
    /\ \E doc \in Docs : files = InitialFiles(doc)
    /\ \E ext \in BOOLEAN :
          dirs = InitialDirs
                 \cup (IF ext THEN {extensions_dir_of(QmdReport)} ELSE {})
    /\ pc = "idle"
    /\ runs = 0
    /\ report_file = <<>>
    /\ output_dir = <<>>
    /\ content = <<>>
    /\ media_paths = <<>>
    /\ valid_media_paths = <<>>
    /\ old_valid_media_paths = <<>>
    /\ idx = 1
    /\ new_relative_paths = <<>>
    /\ new_content = <<>>
    /\ log = <<>>
    /\ stages = <<>>
    /\ rendered = <<>>
    /\ exit_code = 0
    /\ error = ""

\* extract, lines 171-198, up to the call of the format's function
Extract(rf, od) ==
    LET assets_dir == assets_dir_of(od)
        ds == MkdirParents(dirs, od) \cup {assets_dir}
        branch == Dispatch(SuffixOf(rf))
    IN  /\ Idle
        /\ runs < MaxRuns
        /\ runs' = runs + 1
        /\ report_file' = rf
        /\ output_dir' = od
        /\ dirs' = ds
        /\ content' = <<>>
        /\ media_paths' = <<>>
        /\ valid_media_paths' = <<>>
        /\ old_valid_media_paths' = <<>>
        /\ idx' = 1
        /\ new_relative_paths' = <<>>
        /\ new_content' = <<>>
        /\ stages' = <<>>
        /\ error' = ""
        /\ rendered' = rendered
        /\ files' = IF branch = "latex"
                    THEN process_latex_file(files, ds, rf, assets_dir)
                    ELSE IF branch = "markdown"
                    THEN process_markdown_file(files, ds, rf, assets_dir)
                    ELSE files
        /\ log' = IF branch = "unsupported"
                  THEN <<Msg("Unsupported", <<>>)>>
                  ELSE IF branch = "quarto"
                  THEN <<Msg("Processing", rf)>>
                  ELSE <<Msg("Processing", rf), Msg("NotImplemented", <<>>)>>
        /\ pc' = IF branch = "quarto" THEN "read" ELSE "done"
        /\ exit_code' = IF branch = "unsupported" THEN 1 ELSE 0

\* process_quarto_file, lines 137-142
ReadAndValidate ==
    /\ pc = "read"
    /\ LET text == files[report_file]
           found == find_quarto_media(text)
           checked == check_path_validity(found, report_file, files, dirs)
       IN  /\ content' = text
           /\ media_paths' = found
           /\ valid_media_paths' = checked.valid
           /\ old_valid_media_paths' = checked.old
    /\ idx' = 1
    /\ stages' = stages \o <<"extract", "validate">>
    /\ pc' = "copy"
    /\ UNCHANGED <<files, dirs, runs, report_file, output_dir,
                   new_relative_paths, new_content, log, rendered,
                   exit_code, error>>

\* copy_media_files, lines 76-94: one turn of the loop
CopyMedia ==
    /\ pc = "copy"
    /\ idx <= Len(valid_media_paths)
    /\ LET dest_dir == assets_dir_of(output_dir)
           media_path == [abs |-> TRUE, parts |-> valid_media_paths[idx]]
           full_path == full_path_of(media_path, report_file)
           dest_path == dest_path_of(dest_dir, media_path.parts)
           target == IF dest_path \in dirs
                     THEN dest_path \o <<NameOf(full_path)>>
                     ELSE dest_path
           raised == CopyError(files, dirs, full_path, target)
       IN  IF IsValidMedia(files, dirs, full_path)
           THEN IF raised = ""
                THEN /\ files' = CopyFile(files, full_path, target)
                     /\ log' = Append(log, Msg("Copied", full_path))
                     /\ stages' = Append(stages, "copy")
                     /\ idx' = idx + 1
                     /\ UNCHANGED <<pc, exit_code, error>>
                ELSE /\ pc' = "failed"
                     /\ error' = raised
                     /\ exit_code' = 1
                     /\ UNCHANGED <<files, log, stages, idx>>
           ELSE /\ log' = Append(log, Msg("Warning", full_path))
                /\ idx' = idx + 1
                /\ UNCHANGED <<files, stages, pc, exit_code, error>>
    /\ UNCHANGED <<dirs, runs, report_file, output_dir, content, media_paths,
                   valid_media_paths, old_valid_media_paths,
                   new_relative_paths, new_content, rendered>>

\* process_quarto_file, lines 146-149
Rewrite ==
    /\ pc = "copy"
    /\ idx > Len(valid_media_paths)
    /\ LET new_paths == make_relative_paths(valid_media_paths,
                                            assets_dir_of(output_dir))
       IN  /\ new_relative_paths' = new_paths
           /\ new_content' = replace_media_paths(content,
                                 old_valid_media_paths, new_paths)
    /\ stages' = Append(stages, "rewrite")
    /\ pc' = "write"
    /\ UNCHANGED <<files, dirs, runs, report_file, output_dir, content,
                   media_paths, valid_media_paths, old_valid_media_paths,
                   idx, log, rendered, exit_code, error>>

\* process_quarto_file, lines 152-155
WriteNewFile ==
    /\ pc = "write"
    /\ LET new_file_path == new_file_path_of(assets_dir_of(output_dir),
                                             report_file)
       IN  /\ files' = Put(files, new_file_path, new_content)
           /\ log' = Append(log, Msg("NewFile", new_file_path))
    /\ stages' = Append(stages, "emit")
    /\ pc' = "extensions"
    /\ UNCHANGED <<dirs, runs, report_file, output_dir, content, media_paths,
                   valid_media_paths, old_valid_media_paths, idx,
                   new_relative_paths, new_content, rendered, exit_code,
                   error>>

\* process_quarto_file, lines 158-162
CopyExtensions ==
    /\ pc = "extensions"
    /\ LET extensions_dir == extensions_dir_of(report_file)
           dest_extensions_dir ==
               dest_extensions_dir_of(assets_dir_of(output_dir))
       IN  IF ~Exists(files, dirs, extensions_dir)
           THEN /\ pc' = "render"
                /\ UNCHANGED <<dirs, log, stages, exit_code, error>>
           ELSE IF CopytreeFails(files, dirs, dest_extensions_dir)
           THEN /\ pc' = "failed"
                /\ error' = "FileExistsError"
                /\ exit_code' = 1
                /\ UNCHANGED <<dirs, log, stages>>
           ELSE /\ dirs' = dirs \cup {dest_extensions_dir}
                /\ log' = Append(log, Msg("CopiedExtensions", extensions_dir))
                /\ stages' = Append(stages, "extensions")
                /\ pc' = "render"
                /\ UNCHANGED <<exit_code, error>>
    /\ UNCHANGED <<files, runs, report_file, output_dir, content, media_paths,
                   valid_media_paths, old_valid_media_paths, idx,
                   new_relative_paths, new_content, rendered>>

\* process_quarto_file, lines 165-167
RunBuild ==
    /\ pc = "render"
    /\ rendered' = Append(rendered,
                     new_file_path_of(assets_dir_of(output_dir), report_file))
    /\ log' = Append(log, Msg("RunningBuild", <<>>))
    /\ stages' = Append(stages, "render")
    /\ pc' = "done"
    /\ exit_code' = 0
    /\ UNCHANGED <<files, dirs, runs, report_file, output_dir, content,
                   media_paths, valid_media_paths, old_valid_media_paths,
                   idx, new_relative_paths, new_content, error>>

Next ==
    \/ \E rf \in ReportFiles, od \in OutputDirs : Extract(rf, od)
    \/ ReadAndValidate
    \/ CopyMedia
    \/ Rewrite
    \/ WriteNewFile
    \/ CopyExtensions
    \/ RunBuild

Spec == Init /\ [][Next]_vars

---------------------------------------------------------------------------
(* Vocabulary of the properties *)

AssetsDir == assets_dir_of(output_dir)
NewFilePath == new_file_path_of(AssetsDir, report_file)

R_assets_a == <<"a", "s", "s", "e", "t", "s", "/", "a", ".", "p", "n", "g">>
R_assets_img ==
    <<"a", "s", "s", "e", "t", "s", "/", "i", "m", "g", ".", "p", "n", "g">>

\* the path a candidate string stands for, resolved against the report
FullPathOf(candidate) == full_path_of(PathOf(candidate), report_file)

\* the candidate has a supported extension and names a regular file
IsMediaFile(candidate) ==
    /\ InList(Lower(SuffixOf(FullPathOf(candidate))), SUPPORTED_EXTENSIONS)
    /\ FullPathOf(candidate) \in DOMAIN files

\* the candidate passes the test of check_path_validity
PassesValidation(candidate) == IsValidMedia(files, dirs, FullPathOf(candidate))

Logged(kind, path) == \E k \in 1..Len(log) : log[k] = Msg(kind, path)

\* every valid path has a file of its name in the assets directory
AllValidCopied ==
    \A i \in 1..Len(valid_media_paths) :
        dest_path_of(AssetsDir, valid_media_paths[i]) \in DOMAIN files

RECURSIVE SimultaneousReplaceFrom(_, _, _, _)
\* the text in which each occurrence of an old string, found in the original
\* text from index i on, is replaced by the new string of the same position
SimultaneousReplaceFrom(s, olds, news, i) ==
    IF i > Len(s) THEN <<>>
    ELSE LET K == {k \in 1..Len(olds) : MatchesAt(s, olds[k], i)}
         IN  IF K = {}
             THEN <<s[i]>> \o SimultaneousReplaceFrom(s, olds, news, i + 1)
             ELSE LET k == CHOOSE m \in K : \A n \in K : m <= n
                  IN  news[k] \o SimultaneousReplaceFrom(s, olds, news,
                                                         i + Len(olds[k]))

---------------------------------------------------------------------------
(* Properties *)

\* C1: a Quarto report whose only reference is ./img/a.png, an existing
\* file, ends with assets/a.png holding the bytes of the source and with an
\* emitted document that is the source text with the reference ./img/a.png
\* replaced as a whole by assets/a.png.
C1_RoundTrip ==
    (pc = "done" /\ report_file = QmdReport
        /\ content = ImageLine(R_dot_img_a))
    => /\ AssetsDir \o <<NameOf(InDoc(R_dot_img_a))>> \in DOMAIN files
       /\ files[AssetsDir \o <<NameOf(InDoc(R_dot_img_a))>>]
             = BytesOf(R_dot_img_a)
       /\ NewFilePath \in DOMAIN files
       /\ files[NewFilePath] = ImageLine(R_assets_a)

\* C2: a candidate is in the rewrite mapping (and is copied) if and only if
\* its resolved path has a supported lower-cased extension and exists as a
\* file at check time; no exception is raised for any other candidate.
C2_FilteringByFile ==
    /\ (pc = "copy" /\ idx = 1)
       => \A i \in 1..Len(media_paths) :
             InList(PathOf(media_paths[i]), old_valid_media_paths)
             <=> IsMediaFile(media_paths[i])
    /\ error # "IsADirectoryError"

\* C3: a report whose suffix is none of .tex, .md, .qmd makes extract print
\* the unsupported-format message and end with status 1, no stage being run
\* and nothing written or rendered; a report with one of the three suffixes
\* does not leave the dispatch with status 1.
C3_UnsupportedExitsOne ==
    [][runs' = runs + 1 =>
        IF SuffixOf(report_file') \notin {EXT_tex, EXT_md, EXT_qmd}
        THEN /\ pc' = "done"
             /\ exit_code' = 1
             /\ log' = <<Msg("Unsupported", <<>>)>>
             /\ stages' = <<>>
             /\ content' = <<>>
             /\ media_paths' = <<>>
             /\ files' = files
             /\ rendered' = rendered
        ELSE ~(pc' \in {"done", "failed"} /\ exit_code' = 1)]_vars

C3_Witness ==
    /\ pc = "done"
    /\ report_file = DocxReport
    /\ exit_code = 1
    /\ Logged("Unsupported", <<>>)

C5_WarningPerInvalid ==
    InList("rewrite", stages)
    => \A i \in 1..Len(media_paths) :
          ~PassesValidation(media_paths[i])
          => Logged("Warning", FullPathOf(media_paths[i]))

\* C5 as amended: no warning is ever printed in a Quarto run; once the copy
\* stage is over, every extracted reference that fails validation is absent
\* from the rewrite mapping and has not been copied, and every reference that
\* passes it is in the mapping and has been copied, wherever it stands among
\* the failing ones.
C5_SilentSkip ==
    /\ \A k \in 1..Len(log) : log[k].kind # "Warning"
    /\ InList("rewrite", stages)
       => \A i \in 1..Len(media_paths) :
            IF PassesValidation(media_paths[i])
            THEN /\ InList(PathOf(media_paths[i]), old_valid_media_paths)
                 /\ InList(FullPathOf(media_paths[i]), valid_media_paths)
                 /\ Logged("Copied", FullPathOf(media_paths[i]))
            ELSE /\ ~InList(PathOf(media_paths[i]), old_valid_media_paths)
                 /\ ~InList(FullPathOf(media_paths[i]), valid_media_paths)
                 /\ ~Logged("Copied", FullPathOf(media_paths[i]))

C5_Witness ==
    /\ pc = "done"
    /\ media_paths = <<R_missing, R_diagram>>
    /\ ~PassesValidation(R_missing)
    /\ valid_media_paths = <<InDoc(R_diagram)>>
    /\ Logged("Copied", InDoc(R_diagram))

\* C6 as stated: the rewritten document is written in the parent directory
\* of output_dir under the name of the source, and rendered from there.
C6_SiblingOfOutputDir ==
    InList("emit", stages)
    => LET p == ParentOf(output_dir) \o <<NameOf(report_file)>>
       IN  /\ p \in DOMAIN files
           /\ files[p] = new_content
           /\ InList("render", stages) => rendered[Len(rendered)] = p

\* C6 as amended: the rewritten document is written inside output_dir (the
\* parent of output_dir/assets) under the name of the source, and the render
\* command is run on that same path.
C6_InsideOutputDir ==
    InList("emit", stages)
    => LET p == output_dir \o <<NameOf(report_file)>>
       IN  /\ p \in DOMAIN files
           /\ files[p] = new_content
           /\ InList("render", stages) => rendered[Len(rendered)] = p

C6_Witness ==
    /\ pc = "done"
    /\ InList("render", stages)
    /\ output_dir = <<N_out>>
    /\ <<N_out, N_qmd>> \in DOMAIN files
    /\ <<N_qmd>> \notin DOMAIN files
    /\ rendered[Len(rendered)] = <<N_out, N_qmd>>

\* C7: with the references a/img.png and b/img.png, two distinct existing
\* files, both are valid, they are copied in that order to assets/img.png
\* without the copy failing, assets/img.png ends with the bytes of b/img.png,
\* and both are mapped to the new path assets/img.png.
C7_Flattening ==
    (report_file = QmdReport /\ media_paths = <<R_a_img, R_b_img>>)
    => LET dest == AssetsDir \o <<NameOf(InDoc(R_a_img))>>
       IN  /\ valid_media_paths = <<InDoc(R_a_img), InDoc(R_b_img)>>
           /\ error \notin {"IsADirectoryError", "SameFileError"}
           /\ idx = 2 => (dest \in DOMAIN files /\ files[dest] = BytesOf(R_a_img))
           /\ idx = 3 => (dest \in DOMAIN files /\ files[dest] = BytesOf(R_b_img))
           /\ pc # "copy" => idx = 3
           /\ InList("rewrite", stages)
              => /\ Len(new_relative_paths) = 2
                 /\ StrOf(new_relative_paths[1]) = R_assets_img
                 /\ StrOf(new_relative_paths[2]) = R_assets_img

C7_Witness ==
    /\ pc = "done"
    /\ media_paths = <<R_a_img, R_b_img>>
    /\ files[InDoc(R_a_img)] # files[InDoc(R_b_img)]
    /\ files[AssetsDir \o <<NameOf(InDoc(R_a_img))>>] = BytesOf(R_b_img)
    /\ Logged("Copied", InDoc(R_a_img))
    /\ Logged("Copied", InDoc(R_b_img))

\* C8: the rewritten text is the original text in which every occurrence of
\* each old path is replaced by exactly its new path, nothing else changed.
C8_EveryOccurrenceOnce ==
    InList("rewrite", stages)
    => new_content =
          SimultaneousReplaceFrom(content,
              [i \in 1..Len(old_valid_media_paths) |->
                  StrOf(old_valid_media_paths[i])],
              [i \in 1..Len(new_relative_paths) |->
                  StrOf(new_relative_paths[i])],
              1)

\* C9: when _extensions exists beside the source and at the destination, the
\* _extensions step aborts the run with every valid asset copied and the
\* rewritten document written, and without the renderer being invoked; when
\* _extensions is absent beside the source the step is skipped; the renderer
\* is invoked only by the step after it, on the document already written.
C9_ExtensionsOrdering ==
    [][/\ (/\ pc = "extensions"
           /\ Exists(files, dirs, extensions_dir_of(report_file))
           /\ Exists(files, dirs, dest_extensions_dir_of(AssetsDir)))
          => /\ pc' = "failed"
             /\ error' = "FileExistsError"
             /\ files' = files
             /\ rendered' = rendered
             /\ AllValidCopied'
             /\ NewFilePath \in DOMAIN files'
             /\ files'[NewFilePath] = new_content
             /\ ~InList("render", stages')
       /\ (/\ pc = "extensions"
           /\ ~Exists(files, dirs, extensions_dir_of(report_file)))
          => /\ pc' = "render"
             /\ dirs' = dirs
             /\ files' = files
       /\ pc = "render"
          => /\ pc' = "done"
             /\ rendered' = Append(rendered, NewFilePath)
             /\ InList("emit", stages)
             /\ files[NewFilePath] = new_content
       /\ rendered' # rendered => pc = "render"]_vars

C9_Witness ==
    /\ pc = "failed"
    /\ error = "FileExistsError"
    /\ runs = 2
    /\ output_dir = <<N_out>>
    /\ valid_media_paths # <<>>
    /\ AllValidCopied
    /\ files[NewFilePath] = new_content
    /\ ~InList("render", stages)

\* C10: the report handed to extract has the same content after every step
\* of a run as before it.
C10_SourceNeverModified ==
    [][files'[QmdReport] = files[QmdReport]]_vars

===========================================================================
